---- MODULE Spec2Model ----
(***************************************************************************)
(* Drummer's cue engine: cue scheduling (src/src/cue_builder.py), the v1   *)
(* silence pipeline (src/app.py), the ADTOF invocation fallback            *)
(* (src/src/transcribe_adtof.py), tempo post-processing (src/app.py), the  *)
(* per-section drum features and diffs (src/src/drum_features.py), the     *)
(* cue mixers (src/src/render_cues.py, src/app.py), the click synthesis    *)
(* (src/app.py) and the structure analysis (src/src/allin1fix.py).         *)
(*                                                                         *)
(* Units.  Times of the cue builder are integer milliseconds.  Times of    *)
(* the silence pipeline are integer samples at the rate SR, so that        *)
(* start*hop/sr and len(y)/sr are exact.  Densities are hundredths of a    *)
(* hit per second.  Tempi of estimate_bpm are quarter-bpm.  Times of the   *)
(* mixers and of the click track are integer milliseconds, times of the    *)
(* structure analysis whole seconds.                                       *)
(***************************************************************************)
EXTENDS Integers, Sequences, FiniteSets, TLC

VARIABLES
    \* build_cues_with_drum_info
    segments, tempo, lead_bars, assume_44, diffs, feats, cues, out, cb_pc,
    \* app.py: detect_silences and the cue_events block
    level_db, len_y, win_ms, min_silence_ms, silences, cue_events, app_pc,
    \* run_adtof_to_midi
    cand, attempted, last_err, raised, adtof_pc,
    \* estimate_bpm
    raw_bpm, bpm, bpm_pc,
    \* compute_section_features / compute_diffs
    notes, f_segments, min_hits_per_class, f_feats, f_diffs, feat_pc,
    \* render_cue_track / overlay_cues
    mixer, mix_duration, mix_cues, mix_gain, mix_idx, mix_base, mix_pc,
    \* make_click_wav
    ck_duration_ms, ck_sr, ck_bpm, ck_n, ck_bursts, ck_peak, ck_pc,
    \* analyze_structure
    st_times, st_duration, min_segment_seconds, st_segments, st_pc

cbVars    == <<segments, tempo, lead_bars, assume_44, diffs, feats, cues, out, cb_pc>>
appVars   == <<level_db, len_y, win_ms, min_silence_ms, silences, cue_events, app_pc>>
adtofVars == <<cand, attempted, last_err, raised, adtof_pc>>
bpmVars   == <<raw_bpm, bpm, bpm_pc>>
featVars  == <<notes, f_segments, min_hits_per_class, f_feats, f_diffs, feat_pc>>
mixVars   == <<mixer, mix_duration, mix_cues, mix_gain, mix_idx, mix_base, mix_pc>>
clickVars == <<ck_duration_ms, ck_sr, ck_bpm, ck_n, ck_bursts, ck_peak, ck_pc>>
structVars == <<st_times, st_duration, min_segment_seconds, st_segments, st_pc>>
vars      == <<cbVars, appVars, adtofVars, bpmVars, featVars,
               mixVars, clickVars, structVars>>

----------------------------------------------------------------------------
(* Generic helpers *)

Max(a, b) == IF a >= b THEN a ELSE b
Min(a, b) == IF a <= b THEN a ELSE b

\* All sequences over S of length 0..n
SeqsUpTo(S, n) == UNION {[1..k -> S] : k \in 0..n}

Range(s) == {s[i] : i \in 1..Len(s)}

----------------------------------------------------------------------------
(* cue_builder.py *)

\* Bounds of the enumerated inputs
MaxSegs   == 3
MaxCoarse == 1
MaxFine   == 2
MaxLeadBars == 2

\* Grid of segment start times (ms): coarse 10 s steps plus fine 125 ms offsets
CoarseMs == 10000
FineMs   == 125
StartTimes == {c * CoarseMs + f * FineMs : c \in 0..MaxCoarse, f \in 0..MaxFine}
Tempos == {90, 120}

\* RU_PART: the closed label vocabulary; a label outside it is spoken as is,
\* an empty label as the default word.
RU_PART == [intro |-> "ru_intro", verse |-> "ru_verse", chorus |-> "ru_chorus",
            bridge |-> "ru_bridge", outro |-> "ru_outro", silence |-> "ru_silence",
            instrumental |-> "ru_instrumental", inst |-> "ru_instrumental",
            transition |-> "ru_transition", break |-> "ru_break", drop |-> "ru_drop"]

ru_label(lbl) ==
    IF lbl \in DOMAIN RU_PART THEN RU_PART[lbl]
    ELSE IF lbl = "" THEN "ru_part" ELSE lbl

\* density thresholds, hundredths of a hit per second
DensityThresholdSilence == 25
DensityDeltaThreshold   == 90

\* _section_phrase: the translated label and the qualifier parts, in order
section_phrase(label, diff, feat, density_threshold_silence) ==
    LET p1 == IF feat.density <= density_threshold_silence THEN <<"sparse">> ELSE <<>>
        p2 == IF diff.density_delta > DensityDeltaThreshold THEN <<"denser">>
              ELSE IF diff.density_delta < -DensityDeltaThreshold THEN <<"sparser">>
              ELSE <<>>
        p3 == IF diff.added # {} THEN <<[enters |-> diff.added]>> ELSE <<>>
        p4 == IF diff.removed # {} THEN <<[leaves |-> diff.removed]>> ELSE <<>>
    IN [label |-> ru_label(label), parts |-> p1 \o p2 \o p3 \o p4]

\* _lead_seconds_from_bars, as an exact fraction of milliseconds num/den:
\* 2.0 s per bar without the 4/4 assumption, else 4 * 60 / tempo s per bar.
\* (tempo ranges over positive values, where max(1e-6, tempo) = tempo.)
MsPerSec      == 1000
FallbackBarMs == 2000
BeatsPerBar   == 4
SecPerMin     == 60

lead_seconds_from_bars_BeatMutant(tempo_bpm, bars, a44) ==
    IF ~a44 THEN [num |-> bars * FallbackBarMs, den |-> 1]
    ELSE [num |-> bars * SecPerMin * MsPerSec, den |-> tempo_bpm]

lead_seconds_from_bars(tempo_bpm, bars, a44) ==
    IF ~a44 THEN [num |-> bars * FallbackBarMs, den |-> 1]
    ELSE [num |-> bars * BeatsPerBar * SecPerMin * MsPerSec, den |-> tempo_bpm]

\* t_ms = int(max(0.0, t_boundary - lead_s) * 1000)
CueTimeMs(start_ms, lead) ==
    LET n == start_ms * lead.den - lead.num
    IN IF n <= 0 THEN 0 ELSE n \div lead.den

\* The candidate list after the loop of lines 81-89, before the sort.
\* seg is the index of the segment the cue announces (the loop's i).
CandidateCues(segs, tpo, bars, a44, dfs, fts) ==
    LET lead == lead_seconds_from_bars(tpo, bars, a44)
    IN [i \in 1..Len(segs) |->
          IF i = 1
          THEN [t_ms |-> 0, kind |-> "start", seg |-> 1, bars |-> 0,
                phrase |-> section_phrase(segs[1].label, dfs[1], fts[1],
                                          DensityThresholdSilence)]
          ELSE [t_ms |-> CueTimeMs(segs[i].start, lead), kind |-> "lead",
                seg |-> i, bars |-> bars,
                phrase |-> section_phrase(segs[i].label, dfs[i], fts[i],
                                          DensityThresholdSilence)]]

\* list.sort(key=t_ms): stable, equal keys keep their order
RECURSIVE InsertUnstableMutant(_, _)
InsertUnstableMutant(s, c) ==
    IF s = <<>> THEN <<c>>
    ELSE IF s[Len(s)].t_ms < c.t_ms THEN Append(s, c)
    ELSE Append(InsertUnstableMutant(SubSeq(s, 1, Len(s) - 1), c), s[Len(s)])

RECURSIVE InsertStable(_, _)
InsertStable(s, c) ==
    IF s = <<>> THEN <<c>>
    ELSE IF s[Len(s)].t_ms <= c.t_ms THEN Append(s, c)
    ELSE Append(InsertStable(SubSeq(s, 1, Len(s) - 1), c), s[Len(s)])

RECURSIVE SortByTime(_)
SortByTime(s) ==
    IF s = <<>> THEN <<>>
    ELSE InsertStable(SortByTime(SubSeq(s, 1, Len(s) - 1)), s[Len(s)])

\* the dedup loop of lines 94-99
DedupMs      == 250
DedupLastT0  == -10000

KeepCueNoDedupMutant(c, last_t) == TRUE
KeepCue(c, last_t) == c.t_ms - last_t >= DedupMs

\* last_t after a cue was dropped: line 99 runs only for a kept cue
LastAfterDropSeenMutant(c, last_t) == c.t_ms
LastAfterDrop(c, last_t) == last_t

RECURSIVE DedupFrom(_, _, _, _)
DedupFrom(cs, i, last_t, acc) ==
    IF i > Len(cs) THEN acc
    ELSE IF KeepCue(cs[i], last_t)
         THEN DedupFrom(cs, i + 1, cs[i].t_ms, Append(acc, cs[i]))
         ELSE DedupFrom(cs, i + 1, LastAfterDrop(cs[i], last_t), acc)

Dedup(cs) == DedupFrom(cs, 1, DedupLastT0, <<>>)

\* Inputs: a segment list with index-aligned diffs and feats.  The label and
\* the drum information of a segment vary with its position on the grid.
Labels == <<"intro", "verse", "chorus", "solo", "", "outro">>
GridIndex(t) == (t \div CoarseMs) * (MaxFine + 1) + (t % CoarseMs) \div FineMs
LabelAt(t) == Labels[(GridIndex(t) % Len(Labels)) + 1]
FeatAt(t) == [density |-> (GridIndex(t) % 3) * 100]
DiffAt(t) ==
    LET k == GridIndex(t) % 4
    IN [added |-> IF k = 1 THEN {"hihat"} ELSE {},
        removed |-> IF k = 2 THEN {"kick", "toms"} ELSE {},
        density_delta |-> (k - 1) * 100]

CbIdle ==
    /\ segments = <<>> /\ tempo = 120 /\ lead_bars = 0 /\ assume_44 = TRUE
    /\ diffs = <<>> /\ feats = <<>> /\ cues = <<>> /\ out = <<>>
    /\ cb_pc = "idle"

CbInit ==
    /\ \E ts \in SeqsUpTo(StartTimes, MaxSegs) :
          /\ segments = [i \in 1..Len(ts) |-> [label |-> LabelAt(ts[i]), start |-> ts[i]]]
          /\ diffs = [i \in 1..Len(ts) |-> DiffAt(ts[i])]
          /\ feats = [i \in 1..Len(ts) |-> FeatAt(ts[i])]
    /\ tempo \in Tempos
    /\ lead_bars \in 0..MaxLeadBars
    /\ assume_44 \in BOOLEAN
    /\ cues = <<>> /\ out = <<>>
    /\ cb_pc = "ready"

\* build_cues_with_drum_info, the whole call
build_cues_with_drum_info ==
    /\ cb_pc = "ready"
    /\ IF segments = <<>>
       THEN /\ cues' = <<>>
            /\ out' = <<>>
       ELSE /\ cues' = SortByTime(CandidateCues(segments, tempo, lead_bars,
                                                assume_44, diffs, feats))
            /\ out' = Dedup(cues')
    /\ cb_pc' = "done"
    /\ UNCHANGED <<segments, tempo, lead_bars, assume_44, diffs, feats>>
    /\ UNCHANGED <<appVars, adtofVars, bpmVars, featVars, mixVars, clickVars, structVars>>

----------------------------------------------------------------------------
(* app.py: detect_silences and the cue_events block of the Generate handler *)

\* Bounds of the enumerated inputs
MaxFrames == 8

SR == 44100
\* per-window RMS level in dB (before normalisation to the peak window)
LevelsDb == {-60, -20, 0}
WinChoices == {50, 175, 1000}
MinSilenceChoices == {0, 350, 500}

SilenceThresholdDb == -30
TopDb == 80
MsPerSecond == 1000

\* hop = int(sr * win_ms / 1000)
Hop(w) == (SR * w) \div MsPerSecond

\* librosa.feature.rms(y, frame_length=hop, hop_length=hop), centred: y is
\* padded by hop // 2 on both sides and cut into frames hop apart
FrameCount(leny, hop) == 1 + (leny + 2 * (hop \div 2) - hop) \div hop

RECURSIVE SeqMax(_)
SeqMax(s) == IF Len(s) = 1 THEN s[1] ELSE Max(s[1], SeqMax(Tail(s)))

\* rms_db = amplitude_to_db(rms + 1e-10, ref=np.max): level relative to the
\* loudest window, floored top_db below it; silent = rms_db < -30.0
IsSilent(lv, i) == Max(lv[i] - SeqMax(lv), -TopDb) < SilenceThresholdDb

\* (e - s) * 1000 >= min_silence_ms, with s and e in samples
LongEnough(s, e, min_ms) == (e - s) * MsPerSecond >= min_ms * SR

\* the loop of lines 90-99 followed by the tail of lines 102-106;
\* i is the 1-based window (idx = i - 1), start = -1 stands for None
NoStart == -1
RECURSIVE ScanWindows(_, _, _, _, _, _, _)
ScanWindows(lv, i, start, acc, hop, leny, min_ms) ==
    IF i > Len(lv)
    THEN IF start # NoStart /\ LongEnough(start * hop, leny, min_ms)
         THEN Append(acc, [s |-> start * hop, e |-> leny])
         ELSE acc
    ELSE LET idx == i - 1
             st1 == IF IsSilent(lv, i) /\ start = NoStart THEN idx ELSE start
         IN IF ~IsSilent(lv, i) /\ st1 # NoStart
            THEN ScanWindows(lv, i + 1, NoStart,
                             IF LongEnough(st1 * hop, idx * hop, min_ms)
                             THEN Append(acc, [s |-> st1 * hop, e |-> idx * hop])
                             ELSE acc,
                             hop, leny, min_ms)
            ELSE ScanWindows(lv, i + 1, st1, acc, hop, leny, min_ms)

\* the "cleaned" filter of lines 109-112: e - s >= 0.35
FloorNum == 35
FloorDen == 100
KeepRegionAlwaysMutant(r) == TRUE
KeepRegion(r) == (r.e - r.s) * FloorDen >= FloorNum * SR

RECURSIVE Cleaned(_)
Cleaned(rs) ==
    IF rs = <<>> THEN <<>>
    ELSE (IF KeepRegion(rs[1]) THEN <<rs[1]>> ELSE <<>>) \o Cleaned(Tail(rs))

detect_silences(lv, leny, w, min_ms) ==
    Cleaned(ScanWindows(lv, 1, NoStart, <<>>, Hop(w), leny, min_ms))

\* cue offsets of lines 172 and 174, in samples: 0.7 s and 0.25 s
WarnNum == 7
WarnDen == 10
ResumeNum == 25
ResumeDen == 100
WarnLead == (WarnNum * SR) \div WarnDen
ResumeLead == (ResumeNum * SR) \div ResumeDen

WarningTimeLateMutant(s) == Max(s - ResumeLead, 0)
WarningTime(s) == Max(s - WarnLead, 0)
ResumeTime(e) == Max(e - ResumeLead, 0)

\* the loop of lines 170-174: two CueEvents per region, appended in order
\* (the words are those of lang = "en"; lang only selects the word)
RECURSIVE RegionCues(_)
RegionCues(rs) ==
    IF rs = <<>> THEN <<>>
    ELSE << [t_sec |-> WarningTime(rs[1].s), text |-> "Break"],
            [t_sec |-> ResumeTime(rs[1].e), text |-> "In"] >> \o RegionCues(Tail(rs))

\* sorted(cue_events, key=t_sec): stable
RECURSIVE InsertByTSec(_, _)
InsertByTSec(s, c) ==
    IF s = <<>> THEN <<c>>
    ELSE IF s[Len(s)].t_sec <= c.t_sec THEN Append(s, c)
    ELSE Append(InsertByTSec(SubSeq(s, 1, Len(s) - 1), c), s[Len(s)])

RECURSIVE SortByTSec(_)
SortByTSec(s) ==
    IF s = <<>> THEN <<>>
    ELSE InsertByTSec(SortByTSec(SubSeq(s, 1, Len(s) - 1)), s[Len(s)])

AppIdle ==
    /\ level_db = <<>> /\ len_y = 0 /\ win_ms = 50 /\ min_silence_ms = 350
    /\ silences = <<>> /\ cue_events = <<>> /\ app_pc = "idle"

\* A decoded, non-empty waveform: the level of each of its RMS windows and
\* its length, the shortest or the longest that has that many windows.
AppInit ==
    /\ win_ms \in WinChoices
    /\ min_silence_ms \in MinSilenceChoices
    /\ \E n \in 1..MaxFrames :
          /\ level_db \in [1..n -> LevelsDb]
          /\ len_y \in {l \in {Max(1, (n - 1) * Hop(win_ms) + (Hop(win_ms) % 2)),
                                n * Hop(win_ms) + (Hop(win_ms) % 2) - 1} :
                            FrameCount(l, Hop(win_ms)) = n}
    /\ silences = <<>> /\ cue_events = <<>>
    /\ app_pc = "loaded"

\* silences = detect_silences(y, sr)   (the handler passes the defaults; the
\* function's win_ms and min_silence_ms parameters range over their choices)
DetectSilences ==
    /\ app_pc = "loaded"
    /\ silences' = detect_silences(level_db, len_y, win_ms, min_silence_ms)
    /\ app_pc' = "detected"
    /\ UNCHANGED <<level_db, len_y, win_ms, min_silence_ms, cue_events>>
    /\ UNCHANGED <<cbVars, adtofVars, bpmVars, featVars, mixVars, clickVars, structVars>>

\* lines 169-176: cue_events built from the regions, then sorted
BuildCueEvents ==
    /\ app_pc = "detected"
    /\ cue_events' = SortByTSec(RegionCues(silences))
    /\ app_pc' = "cued"
    /\ UNCHANGED <<level_db, len_y, win_ms, min_silence_ms, silences>>
    /\ UNCHANGED <<cbVars, adtofVars, bpmVars, featVars, mixVars, clickVars, structVars>>

----------------------------------------------------------------------------
(* transcribe_adtof.py: run_adtof_to_midi *)

\* the four command shapes of lines 20-25
NumCandidates == 4
\* distinct underlying errors a failing command can raise
MaxErrs == 3
Errs == 1..MaxErrs
NoErr == 0

AdtofIdle ==
    /\ cand = 1 /\ attempted = <<>> /\ last_err = NoErr /\ raised = NoErr
    /\ adtof_pc = "idle"

AdtofInit ==
    /\ cand = 1 /\ attempted = <<>> /\ last_err = NoErr /\ raised = NoErr
    /\ adtof_pc = "start"

\* line 18: Path(out_midi).parent.mkdir(parents=True, exist_ok=True)
MkdirOk ==
    /\ adtof_pc = "start"
    /\ adtof_pc' = "running"
    /\ UNCHANGED <<cand, attempted, last_err, raised>>
    /\ UNCHANGED <<cbVars, appVars, bpmVars, featVars, mixVars, clickVars, structVars>>

\* mkdir raises (OSError): it propagates, no candidate is tried
MkdirFails ==
    /\ adtof_pc = "start"
    /\ adtof_pc' = "aborted"
    /\ UNCHANGED <<cand, attempted, last_err, raised>>
    /\ UNCHANGED <<cbVars, appVars, bpmVars, featVars, mixVars, clickVars, structVars>>

\* after a failure: the next candidate, or past the last one
NextCand(c) == c + 1

\* what the RuntimeError of lines 35-39 reports
ReportedErrFirstMutant(hist, last) == IF hist = <<>> THEN last ELSE hist[1].err
ReportedErr(hist, last) == last

\* _run(cmd) returns: the function returns at once (lines 30-31)
RunSucceeds ==
    /\ adtof_pc = "running"
    /\ cand <= NumCandidates
    /\ attempted' = Append(attempted, [cmd |-> cand, outcome |-> "ok", err |-> NoErr])
    /\ adtof_pc' = "returned"
    /\ UNCHANGED <<cand, last_err, raised>>
    /\ UNCHANGED <<cbVars, appVars, bpmVars, featVars, mixVars, clickVars, structVars>>

\* _run(cmd) raises an Exception e: it is kept in last_err and the loop goes
\* on (lines 32-33); past the last candidate the RuntimeError is raised
RunFails ==
    /\ adtof_pc = "running"
    /\ cand <= NumCandidates
    /\ \E e \in Errs :
          /\ attempted' = Append(attempted, [cmd |-> cand, outcome |-> "error", err |-> e])
          /\ last_err' = e
          /\ cand' = NextCand(cand)
          /\ IF cand' > NumCandidates
             THEN /\ adtof_pc' = "raised"
                  /\ raised' = ReportedErr(attempted', last_err')
             ELSE /\ adtof_pc' = "running"
                  /\ UNCHANGED raised
    /\ UNCHANGED <<cbVars, appVars, bpmVars, featVars, mixVars, clickVars, structVars>>

\* _run(cmd) is interrupted by a BaseException that is no Exception
\* (KeyboardInterrupt): "except Exception" does not catch it
RunInterrupted ==
    /\ adtof_pc = "running"
    /\ cand <= NumCandidates
    /\ attempted' = Append(attempted, [cmd |-> cand, outcome |-> "interrupt", err |-> NoErr])
    /\ adtof_pc' = "aborted"
    /\ UNCHANGED <<cand, last_err, raised>>
    /\ UNCHANGED <<cbVars, appVars, bpmVars, featVars, mixVars, clickVars, structVars>>

----------------------------------------------------------------------------
(* app.py: estimate_bpm post-processing; tempi in quarter-bpm *)

\* raw estimates range over 0, 0.5, 1, ... MaxRawHalfBpm / 2 bpm
MaxRawHalfBpm == 900
QuartersPerBpm == 4
BpmLow  == 60
BpmHigh == 200

ClampBpm(x) == Min(Max(x, BpmLow * QuartersPerBpm), BpmHigh * QuartersPerBpm)

estimate_bpm_LeMutant(raw) ==
    LET b1 == IF raw <= BpmLow * QuartersPerBpm THEN raw * 2 ELSE raw
        b2 == IF b1 > BpmHigh * QuartersPerBpm THEN b1 \div 2 ELSE b1
    IN ClampBpm(b2)

\* lines 42-48 applied to the raw estimate of line 41
estimate_bpm(raw) ==
    LET b1 == IF raw < BpmLow * QuartersPerBpm THEN raw * 2 ELSE raw
        b2 == IF b1 > BpmHigh * QuartersPerBpm THEN b1 \div 2 ELSE b1
    IN ClampBpm(b2)

BpmIdle == raw_bpm = 0 /\ bpm = 0 /\ bpm_pc = "idle"

BpmInit ==
    /\ raw_bpm \in {2 * h : h \in 0..MaxRawHalfBpm}
    /\ bpm = 0
    /\ bpm_pc = "raw"

EstimateBpm ==
    /\ bpm_pc = "raw"
    /\ bpm' = estimate_bpm(raw_bpm)
    /\ bpm_pc' = "done"
    /\ UNCHANGED raw_bpm
    /\ UNCHANGED <<cbVars, appVars, adtofVars, featVars, mixVars, clickVars, structVars>>

----------------------------------------------------------------------------
(* drum_features.py *)

\* Bounds of the enumerated inputs
MaxNotes  == 3
MaxT      == 1
MaxFSegs  == 2
MaxFeats  == 3
MaxLevel  == 1

KICK  == {35, 36}
SNARE == {38, 40}
HAT   == {42, 44, 46}
TOMS  == {41, 43, 45, 47, 48, 50}
CYMS  == {49, 51, 52, 53, 55, 57, 59}
Classes == {"kick", "snare", "hihat", "toms", "cymbals", "other"}

drum_class(pitch) ==
    IF pitch \in KICK THEN "kick"
    ELSE IF pitch \in SNARE THEN "snare"
    ELSE IF pitch \in HAT THEN "hihat"
    ELSE IF pitch \in TOMS THEN "toms"
    ELSE IF pitch \in CYMS THEN "cymbals"
    ELSE "other"

\* Rationals [num, den] (den > 0) for durations, densities and velocities
Rat(n, d) == [num |-> n, den |-> d]
RatSub(a, b) == Rat(a.num * b.den - b.num * a.den, a.den * b.den)
RatEq(a, b) == a.num * b.den = b.num * a.den
RatMax(a, b) == IF a.num * b.den >= b.num * a.den THEN a ELSE b

\* the epsilon 1e-6 of line 41
EpsNum == 1
EpsDen == 1000000

\* line 40: the notes whose start lies in [t0, t1)
InSectionClosedMutant(n, t0, t1) == t0 <= n.start /\ n.start <= t1
InSection(n, t0, t1) == t0 <= n.start /\ n.start < t1

RECURSIVE Select(_, _, _)
Select(ns, t0, t1) ==
    IF ns = <<>> THEN <<>>
    ELSE (IF InSection(ns[1], t0, t1) THEN <<ns[1]>> ELSE <<>>) \o Select(Tail(ns), t0, t1)

RECURSIVE CountClass(_, _)
CountClass(sec, c) ==
    IF sec = <<>> THEN 0
    ELSE (IF drum_class(sec[1].pitch) = c THEN 1 ELSE 0) + CountClass(Tail(sec), c)

RECURSIVE SumVel(_)
SumVel(sec) == IF sec = <<>> THEN 0 ELSE sec[1].velocity + SumVel(Tail(sec))

\* _section_features(notes, t0, t1); times in seconds
section_features(ns, t0, t1) ==
    LET sec == Select(ns, t0, t1)
        dur == RatMax(Rat(EpsNum, EpsDen), Rat(t1 - t0, 1))
    IN [count    |-> Len(sec),
        duration |-> dur,
        density  |-> Rat(Len(sec) * dur.den, dur.num),
        mean_vel |-> IF sec = <<>> THEN Rat(0, 1) ELSE Rat(SumVel(sec), Len(sec)),
        counts   |-> [c \in Classes |-> CountClass(sec, c)]]

\* line 65: the classes with at least min_hits hits
IsStable(c, min_hits) == c >= min_hits

compute_section_features(ns, segs, min_hits) ==
    [i \in 1..Len(segs) |->
        LET f == section_features(ns, segs[i].start, segs[i].end)
        IN [count |-> f.count, duration |-> f.duration, density |-> f.density,
            mean_vel |-> f.mean_vel, counts |-> f.counts,
            present_stable |-> {c \in Classes : IsStable(f.counts[c], min_hits)}]]

\* lines 78-79
AddedSymmetricMutant(cur, prev) == (cur \ prev) \cup (prev \ cur)
Added(cur, prev) == cur \ prev
Removed(cur, prev) == prev \ cur

\* compute_diffs(feats): prev is None exactly for the first feature
compute_diffs(fs) ==
    [i \in 1..Len(fs) |->
        IF i = 1
        THEN [added |-> {}, removed |-> {},
              density_delta |-> Rat(0, 1), vel_delta |-> Rat(0, 1)]
        ELSE [added   |-> Added(fs[i].present_stable, fs[i-1].present_stable),
              removed |-> Removed(fs[i].present_stable, fs[i-1].present_stable),
              density_delta |-> RatSub(fs[i].density, fs[i-1].density),
              vel_delta     |-> RatSub(fs[i].mean_vel, fs[i-1].mean_vel)]]

\* Note events: start on the grid 0..MaxT s, three pitches (kick, hihat, other);
\* lists are ordered by start as load_drum_notes leaves them.
Pitches == <<36, 42, 60>>
NoteKinds == 1..((MaxT + 1) * Len(Pitches))
NoteOf(k) ==
    LET st == (k - 1) \div Len(Pitches)
    IN [start |-> st, end |-> st + 1,
        pitch |-> Pitches[((k - 1) % Len(Pitches)) + 1],
        velocity |-> 40 + 10 * k]
NoteLists ==
    {[i \in 1..Len(ks) |-> NoteOf(ks[i])] :
        ks \in {s \in SeqsUpTo(NoteKinds, MaxNotes) :
                   \A i \in 1..(Len(s) - 1) : s[i] <= s[i + 1]}}

\* Segment lists: consecutive pairs of a boundary list (any order of times,
\* so zero-length and reversed segments occur), or no segment at all
BoundaryTimes == 0..(MaxT + 1)
SegmentLists ==
    {<<>>} \cup
    {[i \in 1..(Len(b) - 1) |-> [label |-> "part", start |-> b[i], end |-> b[i + 1]]] :
        b \in {s \in SeqsUpTo(BoundaryTimes, MaxFSegs + 1) : Len(s) >= 2}}

MinHitsChoices == {2, 3}

FeatIdle ==
    /\ notes = <<>> /\ f_segments = <<>> /\ min_hits_per_class = 3
    /\ f_feats = <<>> /\ f_diffs = <<>> /\ feat_pc = "idle"

FeatInit ==
    /\ notes \in NoteLists
    /\ f_segments \in SegmentLists
    /\ min_hits_per_class \in MinHitsChoices
    /\ f_feats = <<>> /\ f_diffs = <<>>
    /\ feat_pc = "notes"

\* SectionFeature lists handed to compute_diffs directly: any stable sets
\* over three classes, densities and velocities on a small grid
DiffClasses == {"kick", "snare", "hihat"}
FeatSamples ==
    {[density |-> Rat(l, 2), mean_vel |-> Rat(64 * l, 1), present_stable |-> ps] :
        l \in 0..MaxLevel, ps \in SUBSET DiffClasses}

DiffInit ==
    /\ notes = <<>> /\ f_segments = <<>> /\ min_hits_per_class = 3
    /\ f_feats \in SeqsUpTo(FeatSamples, MaxFeats)
    /\ f_diffs = <<>>
    /\ feat_pc = "features"

ComputeSectionFeatures ==
    /\ feat_pc = "notes"
    /\ f_feats' = compute_section_features(notes, f_segments, min_hits_per_class)
    /\ feat_pc' = "features"
    /\ UNCHANGED <<notes, f_segments, min_hits_per_class, f_diffs>>
    /\ UNCHANGED <<cbVars, appVars, adtofVars, bpmVars, mixVars, clickVars, structVars>>

ComputeDiffs ==
    /\ feat_pc = "features"
    /\ f_diffs' = compute_diffs(f_feats)
    /\ feat_pc' = "diffs"
    /\ UNCHANGED <<notes, f_segments, min_hits_per_class, f_feats>>
    /\ UNCHANGED <<cbVars, appVars, adtofVars, bpmVars, mixVars, clickVars, structVars>>

----------------------------------------------------------------------------
(* render_cues.py: render_cue_track, and app.py: overlay_cues.              *)
(* A track is its length in ms and the layers overlaid on it, in order.     *)

\* Bounds of the enumerated inputs
MaxMixCues  == 2
MaxMixDur   == 2
MaxMixTime  == 3

\* grid of durations and cue times (ms)
MixStepMs == 500
MixDurations == {d * MixStepMs : d \in 0..MaxMixDur}
MixTimes == {c * MixStepMs : c \in 0..MaxMixTime}
MixTexts == {"Break", "In"}
\* lengths (ms) of the audio the TTS collaborator renders for a cue
CueLens == {0, 300, 800}
GainChoices == {0, 6}

\* AudioSegment.silent(duration=...)
Silent(duration) == [len |-> duration, layers |-> <<>>]

\* position handed to overlay: int(cue["t_ms"]) in render_cue_track,
\* int(max(ev.t_sec, 0) * 1000) in overlay_cues
MixPosition(which, t) == IF which = "overlay_cues" THEN Max(t, 0) ELSE t

\* gain applied to the cue: apply_gain only in render_cue_track, when non-zero
MixGain(which, g) == IF which = "render_cue_track" THEN g ELSE 0

\* base.overlay(seg, position): the result has the length of base; the part
\* of seg that lies past the end of base is cut off
OverlayExtendMutant(base, text, seglen, gain, pos) ==
    [len |-> Max(base.len, pos + seglen),
     layers |-> Append(base.layers,
                       [at |-> pos, text |-> text, gain |-> gain, audible |-> seglen])]

Overlay(base, text, seglen, gain, pos) ==
    [len |-> base.len,
     layers |-> Append(base.layers,
                       [at |-> pos, text |-> text, gain |-> gain,
                        audible |-> Min(seglen, Max(0, base.len - pos))])]

MixIdle ==
    /\ mixer = "none" /\ mix_duration = 0 /\ mix_cues = <<>> /\ mix_gain = 0
    /\ mix_idx = 1 /\ mix_base = Silent(0) /\ mix_pc = "idle"

MixInit ==
    /\ mixer \in {"render_cue_track", "overlay_cues"}
    /\ mix_duration \in MixDurations
    /\ mix_cues \in SeqsUpTo([t_ms : MixTimes, text : MixTexts], MaxMixCues)
    /\ mix_gain \in (IF mixer = "render_cue_track" THEN GainChoices ELSE {0})
    /\ mix_idx = 1 /\ mix_base = Silent(0) /\ mix_pc = "called"

\* base = AudioSegment.silent(duration); with no cue the base is returned
MixStart ==
    /\ mix_pc = "called"
    /\ mix_base' = Silent(mix_duration)
    /\ mix_pc' = IF mix_cues = <<>> THEN "done" ELSE "mixing"
    /\ UNCHANGED <<mixer, mix_duration, mix_cues, mix_gain, mix_idx>>
    /\ UNCHANGED <<cbVars, appVars, adtofVars, bpmVars, featVars, clickVars, structVars>>

\* one loop iteration: the cue is rendered (to some length) and overlaid;
\* after the last cue the track is returned
OverlayNextCue ==
    /\ mix_pc = "mixing"
    /\ \E seglen \in CueLens :
          mix_base' = Overlay(mix_base, mix_cues[mix_idx].text, seglen,
                              MixGain(mixer, mix_gain),
                              MixPosition(mixer, mix_cues[mix_idx].t_ms))
    /\ mix_idx' = mix_idx + 1
    /\ mix_pc' = IF mix_idx' > Len(mix_cues) THEN "done" ELSE "mixing"
    /\ UNCHANGED <<mixer, mix_duration, mix_cues, mix_gain>>
    /\ UNCHANGED <<cbVars, appVars, adtofVars, bpmVars, featVars, clickVars, structVars>>

\* the TTS collaborator raises (piper's check_call, gTTS): no track is returned
TtsFails ==
    /\ mix_pc = "mixing"
    /\ mix_pc' = "failed"
    /\ UNCHANGED <<mixer, mix_duration, mix_cues, mix_gain, mix_idx, mix_base>>
    /\ UNCHANGED <<cbVars, appVars, adtofVars, bpmVars, featVars, clickVars, structVars>>

----------------------------------------------------------------------------
(* app.py: make_click_wav *)

(* Times are in ms, positions in samples, amplitudes in thousandths of     *)
(* full scale.  The inputs are those whose beat period 60/bpm is a binary   *)
(* fraction, so that the accumulated time of the loop is exact.             *)

\* Bounds of the enumerated inputs
MaxClickDur == 8
ClickStepMs == 250
\* a duration that ends 5 ms after a beat of 60 and 120 bpm
NearBeatMs  == 1005

ClickDurations == {d * ClickStepMs : d \in 0..MaxClickDur} \cup {NearBeatMs}
ClickRates == {11025, 22050, 44100}
ClickBpms == {60, 96, 120, 160, 7680}

BeatSeconds == 60
BurstMs     == 12
BurstPeak   == 700
ClipLimit   == 1000

\* n = int(duration_sec * sr)
NumSamples(d_ms, sr) == (d_ms * sr) \div MsPerSecond

\* click_len = int(0.012 * sr)
ClickLen(sr) == (BurstMs * sr) \div MsPerSecond

\* while time < duration_sec, time being k beat periods of 60.0 / bpm
BeatBefore(k, d_ms, beats) == k * BeatSeconds * MsPerSecond < d_ms * beats

\* i = int(time * sr)
BurstStart(k, sr, beats) == (k * BeatSeconds * sr) \div beats

\* j = min(i + click_len, n)
BurstEndPastMutant(i, click_len, n) == i + click_len

BurstEnd(i, click_len, n) == Min(i + click_len, n)

\* the largest number of bursts added into one sample
MaxOverlap(bs) ==
    LET over(k) == Cardinality({m \in 1..k : bs[m].j > bs[k].i /\ bs[k].j > bs[k].i})
        counts == {over(k) : k \in 1..Len(bs)} \cup {0}
    IN  CHOOSE c \in counts : \A other \in counts : other <= c

\* np.clip(out, -1.0, 1.0), on the bound of |out|
ClipNoneMutant(a) == a

Clip(a) == Min(a, ClipLimit)

\* bound of |out| after the clip: each burst is at most 0.7 in magnitude
Peak(bs) == Clip(BurstPeak * MaxOverlap(bs))

ClickIdle ==
    /\ ck_duration_ms = 0 /\ ck_sr = 44100 /\ ck_bpm = 120 /\ ck_n = 0
    /\ ck_bursts = <<>> /\ ck_peak = 0 /\ ck_pc = "idle"

ClickInit ==
    /\ ck_duration_ms \in ClickDurations
    /\ ck_sr \in ClickRates
    /\ ck_bpm \in ClickBpms
    /\ ck_n = 0 /\ ck_bursts = <<>> /\ ck_peak = 0 /\ ck_pc = "called"

\* n = int(duration_sec * sr); out = zeros(n); time = 0.0
ClickStart ==
    /\ ck_pc = "called"
    /\ ck_n' = NumSamples(ck_duration_ms, ck_sr)
    /\ ck_pc' = "looping"
    /\ UNCHANGED <<ck_duration_ms, ck_sr, ck_bpm, ck_bursts, ck_peak>>
    /\ UNCHANGED <<cbVars, appVars, adtofVars, bpmVars, featVars, mixVars, structVars>>

\* one iteration of the loop: beat k = Len(ck_bursts) is before the end,
\* out[i:j] += burst[:j - i]; time += beat_period
ClickBeat ==
    /\ ck_pc = "looping"
    /\ BeatBefore(Len(ck_bursts), ck_duration_ms, ck_bpm)
    /\ LET i == BurstStart(Len(ck_bursts), ck_sr, ck_bpm)
       IN  ck_bursts' = Append(ck_bursts,
                               [i |-> i, j |-> BurstEnd(i, ClickLen(ck_sr), ck_n)])
    /\ UNCHANGED <<ck_duration_ms, ck_sr, ck_bpm, ck_n, ck_peak, ck_pc>>
    /\ UNCHANGED <<cbVars, appVars, adtofVars, bpmVars, featVars, mixVars, structVars>>

\* the loop ends; out = np.clip(out, -1.0, 1.0); return out
ClickReturn ==
    /\ ck_pc = "looping"
    /\ ~BeatBefore(Len(ck_bursts), ck_duration_ms, ck_bpm)
    /\ ck_peak' = Peak(ck_bursts)
    /\ ck_pc' = "done"
    /\ UNCHANGED <<ck_duration_ms, ck_sr, ck_bpm, ck_n, ck_bursts>>
    /\ UNCHANGED <<cbVars, appVars, adtofVars, bpmVars, featVars, mixVars, structVars>>

----------------------------------------------------------------------------
(* allin1fix.py: analyze_structure *)

(* Times are in whole seconds.  The detected boundary times (the peaks of  *)
(* the novelty curve, converted by librosa) are an input: strictly          *)
(* increasing times within the track.                                       *)

\* Bounds of the enumerated inputs
MaxStructDur  == 5
MaxPeaks      == 3
StructStepSec == 4

StructGrid(duration) == {g * StructStepSec : g \in 0..(duration \div StructStepSec)}
MinSegmentChoices == {4, 8, 12}

RECURSIVE Ascending(_)
Ascending(S) ==
    IF S = {} THEN <<>>
    ELSE LET m == CHOOSE x \in S : \A y \in S : x <= y
         IN  <<m>> \o Ascending(S \ {m})

\* boundaries = [0.0] + times.tolist() + [duration]
Boundaries(times, duration) == <<0>> \o times \o <<duration>>

\* if end - start < min_segment_seconds: continue
KeepSegment(start, end, min_seconds) == ~(end - start < min_seconds)

\* for i in range(len(boundaries) - 1): the segments from pair i on
RECURSIVE SegmentsFrom(_, _, _)
SegmentsFrom(bd, i, min_seconds) ==
    IF i > Len(bd) - 1 THEN <<>>
    ELSE (IF KeepSegment(bd[i], bd[i + 1], min_seconds)
          THEN <<[start |-> bd[i], end |-> bd[i + 1]]>>
          ELSE <<>>) \o SegmentsFrom(bd, i + 1, min_seconds)

\* label heuristics; i counts from 0 as in the source
SegmentLabel(i, count) ==
    IF i = 0 THEN "intro"
    ELSE IF i = count - 1 THEN "outro"
    ELSE IF i % 4 = 0 THEN "chorus"
    ELSE IF i % 4 = 2 THEN "bridge"
    ELSE "verse"

Labeled(segs) ==
    [k \in 1..Len(segs) |->
        [label |-> SegmentLabel(k - 1, Len(segs)),
         start |-> segs[k].start, end |-> segs[k].end]]

analyze_structure(times, duration, min_seconds) ==
    Labeled(SegmentsFrom(Boundaries(times, duration), 1, min_seconds))

StructIdle ==
    /\ st_times = <<>> /\ st_duration = 0 /\ min_segment_seconds = 8
    /\ st_segments = <<>> /\ st_pc = "idle"

StructInit ==
    /\ st_duration \in {d * StructStepSec : d \in 0..MaxStructDur}
    /\ \E peaks \in SUBSET StructGrid(st_duration) :
          /\ Cardinality(peaks) <= MaxPeaks
          /\ st_times = Ascending(peaks)
    /\ min_segment_seconds \in MinSegmentChoices
    /\ st_segments = <<>> /\ st_pc = "called"

AnalyzeStructure ==
    /\ st_pc = "called"
    /\ st_segments' = analyze_structure(st_times, st_duration, min_segment_seconds)
    /\ st_pc' = "done"
    /\ UNCHANGED <<st_times, st_duration, min_segment_seconds>>
    /\ UNCHANGED <<cbVars, appVars, adtofVars, bpmVars, featVars, mixVars, clickVars>>

----------------------------------------------------------------------------
(* Specifications: one per component, the others idle *)

InitCues  == CbInit /\ AppIdle /\ AdtofIdle /\ BpmIdle /\ FeatIdle
                /\ MixIdle /\ ClickIdle /\ StructIdle
InitApp   == CbIdle /\ AppInit /\ AdtofIdle /\ BpmIdle /\ FeatIdle
                /\ MixIdle /\ ClickIdle /\ StructIdle
InitAdtof == CbIdle /\ AppIdle /\ AdtofInit /\ BpmIdle /\ FeatIdle
                /\ MixIdle /\ ClickIdle /\ StructIdle
InitBpm   == CbIdle /\ AppIdle /\ AdtofIdle /\ BpmInit /\ FeatIdle
                /\ MixIdle /\ ClickIdle /\ StructIdle
InitFeat  == CbIdle /\ AppIdle /\ AdtofIdle /\ BpmIdle /\ FeatInit
                /\ MixIdle /\ ClickIdle /\ StructIdle
InitDiff  == CbIdle /\ AppIdle /\ AdtofIdle /\ BpmIdle /\ DiffInit
                /\ MixIdle /\ ClickIdle /\ StructIdle

NextCues  == build_cues_with_drum_info
NextApp   == DetectSilences \/ BuildCueEvents
NextAdtof == MkdirOk \/ MkdirFails \/ RunSucceeds \/ RunFails \/ RunInterrupted
NextBpm   == EstimateBpm
NextFeat  == ComputeSectionFeatures \/ ComputeDiffs
NextDiff  == ComputeDiffs

SpecCues  == InitCues /\ [][NextCues]_vars
SpecApp   == InitApp /\ [][NextApp]_vars
SpecAdtof == InitAdtof /\ [][NextAdtof]_vars
SpecBpm   == InitBpm /\ [][NextBpm]_vars
SpecFeat  == InitFeat /\ [][NextFeat]_vars
SpecDiff  == InitDiff /\ [][NextDiff]_vars

InitMix   == CbIdle /\ AppIdle /\ AdtofIdle /\ BpmIdle /\ FeatIdle
                /\ MixInit /\ ClickIdle /\ StructIdle
NextMix   == MixStart \/ OverlayNextCue \/ TtsFails
SpecMix   == InitMix /\ [][NextMix]_vars

InitClick == CbIdle /\ AppIdle /\ AdtofIdle /\ BpmIdle /\ FeatIdle
                /\ MixIdle /\ ClickInit /\ StructIdle
NextClick == ClickStart \/ ClickBeat \/ ClickReturn
SpecClick == InitClick /\ [][NextClick]_vars

InitStruct == CbIdle /\ AppIdle /\ AdtofIdle /\ BpmIdle /\ FeatIdle
                /\ MixIdle /\ ClickIdle /\ StructInit
NextStruct == AnalyzeStructure
SpecStruct == InitStruct /\ [][NextStruct]_vars

Init == InitCues \/ InitApp \/ InitAdtof \/ InitBpm \/ InitFeat \/ InitDiff
           \/ InitMix \/ InitClick \/ InitStruct
Next == NextCues \/ NextApp \/ NextAdtof \/ NextBpm \/ NextFeat
           \/ NextMix \/ NextClick \/ NextStruct
Spec == Init /\ [][Next]_vars

----------------------------------------------------------------------------
(* Properties of build_cues_with_drum_info, checked under SpecCues *)

\* C1: the returned cue list is non-decreasing in time and any two
\* consecutive cues are at least 250 ms apart.
C1_OutSortedAndSpaced ==
    cb_pc = "done" =>
        \A i \in 1..(Len(out) - 1) :
            /\ out[i].t_ms <= out[i + 1].t_ms
            /\ out[i + 1].t_ms - out[i].t_ms >= 250

\* a call whose candidates were out of order and partly dropped by the dedup
C1_Witness ==
    /\ cb_pc = "done"
    /\ Len(out) >= 2
    /\ Len(out) < Len(cues)
    /\ \E i \in 1..(Len(segments) - 1) : segments[i].start > segments[i + 1].start

\* C3: the result is empty exactly for an empty segment list; otherwise its
\* first element is the initial cue at time 0 describing segments[0], also
\* when other cues are clamped to time 0.
C3_InitialCueFirst ==
    cb_pc = "done" =>
        /\ (out = <<>>) <=> (segments = <<>>)
        /\ segments # <<>> =>
              /\ out[1].kind = "start"
              /\ out[1].t_ms = 0
              /\ out[1].seg = 1
              /\ out[1].phrase.label = ru_label(segments[1].label)
              /\ out[1].phrase = section_phrase(segments[1].label, diffs[1], feats[1], 25)

\* a later segment's cue was clamped to time 0 and competes with the initial cue
C3_Witness ==
    /\ cb_pc = "done"
    /\ \E j \in 1..Len(cues) : cues[j].kind = "lead" /\ cues[j].t_ms = 0
    /\ Len(out) >= 2
    /\ out[1].kind = "start"

\* C4: the cue of every segment i >= 1 is scheduled at
\* max(0, start - lead_seconds) (in whole ms), lead_seconds being
\* lead_bars * 4 * 60 / tempo under 4/4 and lead_bars * 2.0 otherwise;
\* boundaries [0, 10, 20] s, tempo 120, lead_bars 2 put the second cue at 6 s.
C4_ExpectedMs(i) ==
    LET scaled == IF assume_44
                  THEN segments[i].start * tempo - lead_bars * 4 * 60 * 1000
                  ELSE (segments[i].start - lead_bars * 2000) * tempo
    IN IF scaled < 0 THEN 0 ELSE scaled \div tempo

C4_LeadCueTimes ==
    cb_pc = "done" =>
        /\ \A i \in 2..Len(segments) :
              /\ Cardinality({j \in 1..Len(cues) : cues[j].seg = i}) = 1
              /\ \A j \in 1..Len(cues) :
                    cues[j].seg = i =>
                        cues[j].kind = "lead" /\ cues[j].t_ms = C4_ExpectedMs(i)
        /\ ( /\ Len(segments) >= 2
             /\ segments[2].start = 10000
             /\ tempo = 120 /\ lead_bars = 2 /\ assume_44 )
           => \E j \in 1..Len(cues) : cues[j].seg = 2 /\ cues[j].t_ms = 6000

\* the scenario of the claim: second section at 10 s, 120 bpm, two bars of lead
C4_Witness ==
    /\ cb_pc = "done"
    /\ Len(segments) = 2
    /\ segments[1].start = 0 /\ segments[2].start = 10000
    /\ tempo = 120 /\ lead_bars = 2 /\ assume_44
    /\ Len(out) = 2 /\ out[2].t_ms = 6000

----------------------------------------------------------------------------
(* Properties of the silence pipeline of app.py, checked under SpecApp *)

\* the regions are time-ordered, non-overlapping and each at least 350 ms long
RegionsWellFormed(rs) ==
    /\ \A i \in 1..Len(rs) :
          rs[i].s < rs[i].e /\ (rs[i].e - rs[i].s) * 1000 >= 350 * SR
    /\ \A i \in 1..(Len(rs) - 1) : rs[i].e <= rs[i + 1].s

\* C2: for well-formed silence regions the cue list of app.py is time-sorted
\* and any two consecutive cues are at least 250 ms apart.
C2_CueEventsSpaced ==
    (app_pc = "cued" /\ RegionsWellFormed(silences)) =>
        \A i \in 1..(Len(cue_events) - 1) :
            /\ cue_events[i].t_sec <= cue_events[i + 1].t_sec
            /\ (cue_events[i + 1].t_sec - cue_events[i].t_sec) * 1000 >= 250 * SR

\* C5: the regions returned by detect_silences are time-ordered and
\* non-overlapping with start < end, and every one of them, a tail region
\* closed at the waveform's end included, lasts at least 350 ms, whatever
\* the window size and min_silence_ms.
C5_SilencesWellFormed ==
    app_pc \in {"detected", "cued"} => RegionsWellFormed(silences)

\* two regions, the second a tail closed at the waveform's end, found with
\* min_silence_ms below the 350 ms floor
C5_Witness ==
    /\ app_pc = "detected"
    /\ min_silence_ms = 0
    /\ Len(silences) = 2
    /\ silences[2].e = len_y
    /\ len_y % Hop(win_ms) # 0

\* C6: every silence region (s, e) yields exactly two cues, a warning at
\* max(0, s - 0.7) s and a resume cue at max(0, e - 0.25) s; the silence
\* [3.0 s, 4.0 s] yields the cues at 2.3 s and 3.75 s.
C6_Expected(rs) ==
    {[t_sec |-> IF 10 * rs[i].s >= 7 * SR THEN (10 * rs[i].s - 7 * SR) \div 10 ELSE 0,
      text |-> "Break"] : i \in 1..Len(rs)}
    \cup
    {[t_sec |-> IF 4 * rs[i].e >= SR THEN (4 * rs[i].e - SR) \div 4 ELSE 0,
      text |-> "In"] : i \in 1..Len(rs)}

C6_TwoCuesPerRegion ==
    app_pc = "cued" =>
        /\ Len(cue_events) = 2 * Len(silences)
        /\ Range(cue_events) = C6_Expected(silences)
        /\ \A c \in Range(cue_events) :
              Cardinality({j \in 1..Len(cue_events) : cue_events[j] = c}) =
              Cardinality({i \in 1..Len(silences) :
                              \/ c.text = "Break" /\ c.t_sec = Max(silences[i].s - (7 * SR) \div 10, 0)
                              \/ c.text = "In" /\ c.t_sec = Max(silences[i].e - SR \div 4, 0)})
        /\ (\E i \in 1..Len(silences) : silences[i] = [s |-> 3 * SR, e |-> 4 * SR])
           => /\ [t_sec |-> (23 * SR) \div 10, text |-> "Break"] \in Range(cue_events)
              /\ [t_sec |-> (375 * SR) \div 100, text |-> "In"] \in Range(cue_events)

\* the silence [3.0 s, 4.0 s] and its two cues
C6_Witness ==
    /\ app_pc = "cued"
    /\ silences = <<[s |-> 3 * SR, e |-> 4 * SR]>>
    /\ cue_events = <<[t_sec |-> 101430, text |-> "Break"],
                      [t_sec |-> 165375, text |-> "In"]>>

----------------------------------------------------------------------------
(* Properties of run_adtof_to_midi, checked under SpecAdtof *)

\* C7: the candidates are tried strictly in list order; the function returns
\* after the first success without trying a later candidate; the RuntimeError
\* is raised exactly when every candidate was tried and failed, and it
\* carries the error of the last candidate tried.
C7_OrderedFallback ==
    /\ \A k \in 1..Len(attempted) : attempted[k].cmd = k
    /\ Len(attempted) <= 4
    /\ \A k \in 1..(Len(attempted) - 1) : attempted[k].outcome = "error"
    /\ (adtof_pc = "returned") <=>
          (attempted # <<>> /\ attempted[Len(attempted)].outcome = "ok")
    /\ (adtof_pc = "raised") <=>
          (Len(attempted) = 4 /\ \A k \in 1..4 : attempted[k].outcome = "error")
    /\ adtof_pc = "raised" =>
          raised = attempted[Len(attempted)].err /\ raised # NoErr
    /\ adtof_pc # "raised" => raised = NoErr

\* all four candidates failed, the first and the last with different errors
C7_Witness ==
    /\ adtof_pc = "raised"
    /\ Len(attempted) = 4
    /\ attempted[1].err # attempted[4].err
    /\ raised = attempted[4].err

\* a success of the third candidate ends the call: the fourth is never tried
C7_WitnessReturn ==
    /\ adtof_pc = "returned"
    /\ Len(attempted) = 3

----------------------------------------------------------------------------
(* Properties of estimate_bpm, checked under SpecBpm; values in quarter-bpm *)

\* C8: the returned tempo lies in [60, 200] and is the raw estimate doubled
\* if below 60, then halved if above 200, then clamped to [60, 200];
\* raw 50 gives 100, raw 210 gives 105, raw 130 stays 130.
C8_TempoFolded ==
    bpm_pc = "done" =>
        /\ 60 * 4 <= bpm /\ bpm <= 200 * 4
        /\ raw_bpm < 30 * 4 => bpm = 60 * 4
        /\ (30 * 4 <= raw_bpm /\ raw_bpm < 60 * 4) => bpm = 2 * raw_bpm
        /\ (60 * 4 <= raw_bpm /\ raw_bpm <= 200 * 4) => bpm = raw_bpm
        /\ (200 * 4 < raw_bpm /\ raw_bpm <= 400 * 4) => 2 * bpm = raw_bpm
        /\ raw_bpm > 400 * 4 => bpm = 200 * 4
        /\ raw_bpm = 50 * 4 => bpm = 100 * 4
        /\ raw_bpm = 210 * 4 => bpm = 105 * 4
        /\ raw_bpm = 130 * 4 => bpm = 130 * 4

\* the doubling scenario: raw 50 corrected to 100
C8_Witness == bpm_pc = "done" /\ raw_bpm = 50 * 4 /\ bpm = 100 * 4

\* the halving scenario: raw 210 corrected to 105
C8_WitnessHalved == bpm_pc = "done" /\ raw_bpm = 210 * 4 /\ bpm = 105 * 4

----------------------------------------------------------------------------
(* Properties of compute_diffs, checked under SpecDiff *)

\* C9: compute_diffs returns one Diff per feature in the same order; the
\* first has empty added and removed sets and zero deltas; every later Diff i
\* has added = stable(i) minus stable(i-1) and removed = stable(i-1) minus
\* stable(i), so the two are disjoint; {kick,snare} then {kick,snare,hihat}
\* gives added = {hihat}, removed = {}.
C9_DiffsOfFeatures ==
    feat_pc = "diffs" =>
        /\ Len(f_diffs) = Len(f_feats)
        /\ f_feats # <<>> =>
              /\ f_diffs[1].added = {} /\ f_diffs[1].removed = {}
              /\ f_diffs[1].density_delta.num = 0 /\ f_diffs[1].vel_delta.num = 0
        /\ \A i \in 2..Len(f_feats) :
              LET cur == f_feats[i].present_stable
                  prev == f_feats[i - 1].present_stable
                  d == f_diffs[i]
              IN /\ d.added \subseteq cur /\ d.added \cap prev = {}
                 /\ d.removed \subseteq prev /\ d.removed \cap cur = {}
                 /\ cur \subseteq (prev \cup d.added)
                 /\ prev \subseteq (cur \cup d.removed)
                 /\ d.added \cap d.removed = {}
                 /\ (prev = {"kick", "snare"} /\ cur = {"kick", "snare", "hihat"})
                       => (d.added = {"hihat"} /\ d.removed = {})

\* the scenario of the claim, followed by a section that loses two classes
C9_Witness ==
    /\ feat_pc = "diffs"
    /\ Len(f_feats) = 3
    /\ f_feats[1].present_stable = {"kick", "snare"}
    /\ f_feats[2].present_stable = {"kick", "snare", "hihat"}
    /\ f_feats[3].present_stable = {"hihat"}
    /\ f_diffs[2].added = {"hihat"} /\ f_diffs[2].removed = {}
    /\ f_diffs[3].removed = {"kick", "snare"}

----------------------------------------------------------------------------
(* Properties of compute_section_features, checked under SpecFeat *)

\* the notes of the list whose start lies in [t0, t1), by position
C10_Hits(t0, t1) == {k \in 1..Len(notes) : t0 <= notes[k].start /\ notes[k].start < t1}

\* C10: one SectionFeature per Segment in the same order; each counts exactly
\* the notes whose start lies in [segment.start, segment.end), its per-class
\* counts sum to its count, and its stable set is exactly the classes with
\* at least min_hits_per_class hits in that segment.
C10_FeaturesOfSegments ==
    feat_pc \in {"features", "diffs"} =>
        /\ Len(f_feats) = Len(f_segments)
        /\ \A i \in 1..Len(f_segments) :
              LET hits == C10_Hits(f_segments[i].start, f_segments[i].end)
                  f == f_feats[i]
              IN /\ f.count = Cardinality(hits)
                 /\ f.counts["kick"] + f.counts["snare"] + f.counts["hihat"]
                    + f.counts["toms"] + f.counts["cymbals"] + f.counts["other"] = f.count
                 /\ f.present_stable =
                       {c \in Classes :
                           Cardinality({k \in hits : drum_class(notes[k].pitch) = c})
                               >= min_hits_per_class}

\* a segment with a stable class, and a note sitting exactly on its end
C10_Witness ==
    /\ feat_pc = "features"
    /\ \E i \in 1..Len(f_segments) :
          /\ f_feats[i].present_stable # {}
          /\ f_feats[i].count < Len(notes)
          /\ \E k \in 1..Len(notes) : notes[k].start = f_segments[i].end

----------------------------------------------------------------------------
(* The dedup of build_cues_with_drum_info, checked under SpecCues *)

\* positions of the sorted candidate list whose cue is in the result
\* (candidates differ in seg, so a cue identifies its position)
C14_Kept == {j \in 1..Len(cues) : cues[j] \in Range(out)}

C14_LastKeptBefore(j) ==
    CHOOSE k \in C14_Kept : k < j /\ \A m \in C14_Kept : m < j => m <= k

\* C14: over the time-sorted candidates a cue is dropped exactly when it is
\* less than 250 ms after the most recently kept cue (not the most recently
\* seen one); among candidates of equal time the one of the earlier segment
\* is the one kept.
C14_GreedyFirstWins ==
    cb_pc = "done" =>
        /\ \A j \in 1..(Len(cues) - 1) : cues[j].t_ms <= cues[j + 1].t_ms
        /\ Len(out) = Cardinality(C14_Kept)
        /\ \A a \in 1..Len(out), b \in 1..Len(out) :
              a < b => \E j \in 1..Len(cues), k \in 1..Len(cues) :
                          j < k /\ cues[j] = out[a] /\ cues[k] = out[b]
        /\ \A j \in 1..Len(cues) :
              (j \in C14_Kept) <=>
                  \/ \A k \in C14_Kept : k >= j
                  \/ /\ \E k \in C14_Kept : k < j
                     /\ cues[j].t_ms - cues[C14_LastKeptBefore(j)].t_ms >= 250
        /\ \A j \in 1..Len(cues), k \in 1..Len(cues) :
              (cues[j].t_ms = cues[k].t_ms /\ cues[j].seg < cues[k].seg)
                  => (j < k /\ k \notin C14_Kept)

\* cues at 0, 125 and 250 ms: the second is dropped, the third is within
\* 250 ms of the dropped one and is kept
C14_Witness ==
    /\ cb_pc = "done"
    /\ Len(cues) = 3 /\ Len(out) = 2
    /\ cues[2].t_ms - cues[1].t_ms < 250
    /\ cues[3].t_ms - cues[2].t_ms < 250
    /\ out[2] = cues[3]

\* two later segments scheduled at the same time: the earlier one's cue stays
C14_WitnessTie ==
    /\ cb_pc = "done"
    /\ Len(cues) = 3 /\ Len(out) = 2
    /\ cues[2].t_ms = cues[3].t_ms
    /\ cues[2].seg < cues[3].seg
    /\ out[2] = cues[2]

----------------------------------------------------------------------------
(* detect_silences on uniform inputs, checked under SpecApp *)

\* every window of the waveform has the level lv
C12_Uniform(lv) == \A i \in 1..Len(level_db) : level_db[i] = lv

\* C12: an all-silent input (every window at the same near-zero level, the
\* waveform at least 350 ms long) yields exactly one region spanning
\* [0, waveform duration]; an all-loud input yields the empty list.
C12_UniformInputs ==
    app_pc = "detected" =>
        /\ (C12_Uniform(-60) /\ len_y * 100 >= 35 * SR)
              => silences = <<[s |-> 0, e |-> len_y]>>
        /\ C12_Uniform(0) => silences = <<>>

\* the all-loud half alone
C12_AllLoudEmpty ==
    (app_pc = "detected" /\ C12_Uniform(0)) => silences = <<>>


----------------------------------------------------------------------------
\* C11: whenever the mixer (render_cue_track or overlay_cues) returns a
\* track, the track has exactly the requested total duration, whatever the
\* cue times (also at or beyond the track end) and rendered cue lengths, and
\* it carries one layer per cue, in list order, each at its cue's timestamp.
C11_DurationAndPlacement ==
    mix_pc = "done" =>
        /\ mix_base.len = mix_duration
        /\ Len(mix_base.layers) = Len(mix_cues)
        /\ \A i \in 1..Len(mix_cues) :
              /\ mix_base.layers[i].at = mix_cues[i].t_ms
              /\ mix_base.layers[i].text = mix_cues[i].text

\* a returned track with a cue rendered past the track end: one cue starting
\* inside the track and running over its end, one starting beyond the end
C11_Witness ==
    /\ mix_pc = "done"
    /\ Len(mix_cues) = 2
    /\ mix_duration > 0
    /\ mix_cues[1].t_ms < mix_duration
    /\ mix_base.layers[1].audible > 0
    /\ mix_base.layers[1].audible < 800
    /\ mix_cues[2].t_ms >= mix_duration
    /\ mix_base.layers[2].audible = 0
----------------------------------------------------------------------------
\* C13: make_click_wav returns a buffer of exactly int(duration_sec * sr)
\* samples, with one burst starting at the sample of every multiple of the
\* beat period that is strictly before duration_sec and no other burst; a
\* burst that would run over the end of the buffer is cut at the buffer
\* bound; every sample is within [-1, 1]; and for bpm = 120, sr = 44100 and
\* a duration of 2 s the bursts start at samples 0, 22050, 44100 and 66150
\* (0.0, 0.5, 1.0 and 1.5 s) and the buffer has 88200 samples.
C13_ClickBuffer ==
    ck_pc = "done" =>
        LET beats == Len(ck_bursts)
            click_len == ClickLen(ck_sr)
        IN  /\ ck_n * MsPerSecond <= ck_duration_ms * ck_sr
            /\ ck_duration_ms * ck_sr < (ck_n + 1) * MsPerSecond
            /\ beats * BeatSeconds * MsPerSecond >= ck_duration_ms * ck_bpm
            /\ beats > 0 =>
                  (beats - 1) * BeatSeconds * MsPerSecond < ck_duration_ms * ck_bpm
            /\ \A k \in 1..beats :
                  LET b == ck_bursts[k]
                  IN  /\ b.i * ck_bpm <= (k - 1) * BeatSeconds * ck_sr
                      /\ (k - 1) * BeatSeconds * ck_sr < (b.i + 1) * ck_bpm
                      /\ b.i <= b.j
                      /\ b.j <= ck_n
                      /\ b.j = b.i + click_len \/ b.j = ck_n
            /\ ck_peak <= ClipLimit
            /\ (ck_bpm = 120 /\ ck_sr = 44100 /\ ck_duration_ms = 2000) =>
                  /\ ck_n = 88200
                  /\ [k \in 1..beats |-> ck_bursts[k].i] = <<0, 22050, 44100, 66150>>

\* a returned buffer whose last burst starts 5 ms before the end and is cut
\* at the buffer bound
C13_Witness ==
    /\ ck_pc = "done"
    /\ ck_bpm <= 160
    /\ ck_bursts # <<>>
    /\ LET b == ck_bursts[Len(ck_bursts)]
       IN  /\ b.j = ck_n
           /\ b.j > b.i
           /\ b.j - b.i < ClickLen(ck_sr)

\* the worked example: 120 bpm, 44100 Hz, 2 s
C13_WitnessExample ==
    /\ ck_pc = "done"
    /\ ck_bpm = 120 /\ ck_sr = 44100 /\ ck_duration_ms = 2000
    /\ Len(ck_bursts) = 4

\* a returned buffer in which bursts overlap and the clip limits the sum
C13_WitnessClipped ==
    /\ ck_pc = "done"
    /\ MaxOverlap(ck_bursts) >= 2
    /\ ck_peak = ClipLimit
----------------------------------------------------------------------------
\* C15: for every set of detected boundary times and every
\* min_segment_seconds, the segments returned by analyze_structure have
\* start < end, are ordered and non-overlapping, and cover [0, duration]:
\* the first starts at 0, the last ends at duration, and each segment's end
\* is the next segment's start.
C15_SegmentsCoverTrack ==
    (st_pc = "done" /\ st_segments # <<>>) =>
        /\ \A k \in 1..Len(st_segments) : st_segments[k].start < st_segments[k].end
        /\ \A k \in 1..(Len(st_segments) - 1) :
              st_segments[k].end = st_segments[k + 1].start
        /\ st_segments[1].start = 0
        /\ st_segments[Len(st_segments)].end = st_duration

\* the part that holds: the returned segments are ordered and do not overlap,
\* and none is shorter than min_segment_seconds
C15_OrderedNonOverlapping ==
    st_pc = "done" =>
        /\ \A k \in 1..Len(st_segments) :
              /\ st_segments[k].start <= st_segments[k].end
              /\ st_segments[k].end - st_segments[k].start >= min_segment_seconds
        /\ \A k \in 1..(Len(st_segments) - 1) :
              st_segments[k].end <= st_segments[k + 1].start

\* a returned list from which a short segment was dropped
C15_WitnessDropped ==
    /\ st_pc = "done"
    /\ st_segments # <<>>
    /\ Len(st_segments) < Len(st_times) + 1
====
